---- MODULE Spec2Model ----
(***************************************************************************)
(* A model of src/src/scripts/page-background.ts: the PageBackground       *)
(* class (grid of letter positions, the animated letter instances, the    *)
(* requestAnimationFrame loop, resize and destroy) and the module-level    *)
(* initializeBackground() that loads the font, constructs the class and    *)
(* registers the ResizeObserver and the beforeunload handler.              *)
(*                                                                         *)
(* Time is Date.now() in milliseconds; the model's clock moves in whole    *)
(* seconds (MS_PER_SECOND ms at a time) and fade durations are whole       *)
(* seconds of the configured range [2, 7).  Opacities are kept in          *)
(* thousandths: a float v is represented by 0 when v = 0 and otherwise by  *)
(* sign(v) * max(1, round(1000 * |v|)), so that the sign of the tiny       *)
(* residues Math.sin leaves at multiples of pi (Math.sin(Math.PI) is       *)
(* 1.2e-16, Math.sin(2 * Math.PI) is -2.4e-16) is kept: the code compares  *)
(* alpha with 0.                                                           *)
(***************************************************************************)
EXTENDS Integers, Sequences, FiniteSets, TLC

VARIABLES
  pc,               \* initializeBackground(): "awaitFont", "registered", "rejected"
  title,            \* document.title, a sequence of characters
  ctxOk,            \* whether overlayCanvas.getContext('2d') returns a context
  fontLoaded,       \* loadFont() has resolved: the font is in document.fonts
  now,              \* Date.now()
  width,            \* this.width
  height,           \* this.height
  letterPositions,  \* this.letterPositions
  letterInstances,  \* this.letterInstances (each with the identity of its object)
  nextId,           \* identity given to the next LetterInstance object
  animationFrameId, \* this.animationFrameId
  frameQueue,       \* the host's list of animation frame callbacks (handles)
  nextHandle,       \* the handle the next requestAnimationFrame returns
  observing,        \* the ResizeObserver observes document.body
  unloadHook,       \* the beforeunload listener is registered
  canvas,           \* fillText calls on the overlay canvas since the last clearRect
  frame,            \* what the last handler did: its kind and, for a tick, its log
  error,            \* the error the last handler threw ("none" when it returned)
  seeded,           \* how many letters the last initBackground() pushed
  stops,            \* how many times the beforeunload listener has run
  args,             \* arguments of a function applied on its own
  result            \* what that function returned

vars == <<pc, title, ctxOk, fontLoaded, now, width, height, letterPositions,
          letterInstances, nextId, animationFrameId, frameQueue, nextHandle,
          observing, unloadHook, canvas, frame, error, seeded, stops, args, result>>

(***************************************************************************)
(* Bounds of the model.                                                    *)
(***************************************************************************)
\* the clock stops at this many seconds
MaxTime == 4
\* fade durations are drawn from the whole seconds up to this one
MaxDuration == 3
\* requestAnimationFrame hands out at most this many handles
MaxFrames == 3
\* at most this many LetterInstance objects are created before resizes stop
MaxObjects == 4
\* the beforeunload listener runs at most this many times
MaxStops == 2
\* the Sampler on its own is applied to arrays up to this length
MaxLen == 4
\* easeInOutSine on its own reads the clock up to this many seconds
MaxEaseTime == 10
\* the paced frame loop runs for this many seconds
MaxLiveTime == 9

(***************************************************************************)
(* Program constants.                                                      *)
(***************************************************************************)
LETTER_WIDTH == 17
LETTER_HEIGHT == 35
MS_PER_SECOND == 1000
LETTER_FADE_DURATION == <<2, 7>>
\* animationFrameId: null | number; the host's handles are positive
null == 0

Min(a, b) == IF a < b THEN a ELSE b
Max(a, b) == IF a > b THEN a ELSE b

\* Math.ceil(a / b) for integers a >= 0, b > 0
Ceil(a, b) == (a + b - 1) \div b

\* Number.parseInt((num / den).toFixed()): the nearest integer, a tie going up
ToFixed(num, den) == (2 * num + den) \div (2 * den)

(***************************************************************************)
(* The page text: document.title.toLowerCase().split(' | ')[0] || 'spectre'*)
(***************************************************************************)
toLowerCase(c) ==
  CASE c = "A" -> "a"
    [] c = "B" -> "b"
    [] OTHER -> c

\* the first index at which ' | ' starts in s, 0 when it does not occur
RECURSIVE SeparatorAt(_, _)
SeparatorAt(s, i) ==
  IF i + 2 > Len(s) THEN 0
  ELSE IF s[i] = " " /\ s[i + 1] = "|" /\ s[i + 2] = " " THEN i
  ELSE SeparatorAt(s, i + 1)

FirstSegment(s) ==
  LET at == SeparatorAt(s, 1)
  IN IF at = 0 THEN s ELSE SubSeq(s, 1, at - 1)

PageText(t) ==
  LET lower == [i \in 1..Len(t) |-> toLowerCase(t[i])]
      first == FirstSegment(lower)
  IN IF first = <<>> THEN <<"s", "p", "e", "c", "t", "r", "e">> ELSE first

(***************************************************************************)
(* getRandomAmountFromArray.  draws[k] is Math.floor(Math.random() * len)  *)
(* of the k-th iteration; taken is the sparse array, a function whose      *)
(* domain holds the indices that were assigned.                            *)
(***************************************************************************)
\* the loop without the redirection of a slot that was already consumed
RECURSIVE SampleLoopNoRedirect(_, _, _, _, _)
SampleLoopNoRedirect(n, len, taken, res, draws) ==
  IF n = 0 THEN res
  ELSE SampleLoopNoRedirect(n - 1, len - 1, taken,
                            [res EXCEPT ![n] = Head(draws)], Tail(draws))

RECURSIVE SampleLoop(_, _, _, _, _)
SampleLoop(n, len, taken, res, draws) ==
  IF n = 0 THEN res
  ELSE LET x == Head(draws)
           last == len - 1
           picked == IF x \in DOMAIN taken THEN taken[x] ELSE x
           moved == IF last \in DOMAIN taken THEN taken[last] ELSE last
           taken1 == [i \in (DOMAIN taken) \cup {x} |->
                        IF i = x THEN moved ELSE taken[i]]
       IN SampleLoop(n - 1, last, taken1, [res EXCEPT ![n] = picked], Tail(draws))

\* the source indices (from 0) the loop picks, result[0] first
SampleIndices(len, n, draws) ==
  SampleLoop(n, len, [i \in {} |-> 0], [i \in 1..n |-> -1], draws)

\* the Sampler clamping n to the length instead of throwing
getRandomAmountFromArrayClamped(arr, n, draws) ==
  LET m == Min(n, Len(arr))
      idx == SampleIndices(Len(arr), m, draws)
  IN [threw |-> FALSE,
      value |-> [i \in 1..m |-> arr[idx[i] + 1]],
      indices |-> idx,
      arr |-> arr]

\* threw: the AstroError of line 164; arr: the source array after the call
getRandomAmountFromArray(arr, n, draws) ==
  IF n > Len(arr)
  THEN [threw |-> TRUE, value |-> <<>>, indices |-> <<>>, arr |-> arr]
  ELSE LET idx == SampleIndices(Len(arr), n, draws)
       IN [threw |-> FALSE,
           value |-> [i \in 1..n |-> arr[idx[i] + 1]],
           indices |-> idx,
           arr |-> arr]

\* the values Math.floor(Math.random() * len) can take in n iterations from length len
DrawSeqs(len, n) ==
  LET m == Min(n, len)
  IN {d \in [1..m -> 0..(len - 1)] : \A k \in 1..m : d[k] < len - k + 1}

(***************************************************************************)
(* easeInOutSine.  SinMilli(k) is Math.sin of k * pi / 60 in thousandths,  *)
(* CosMilli(k) is Math.cos of it.                                          *)
(***************************************************************************)
SinTable ==
  <<52, 105, 156, 208, 259, 309, 358, 407, 454, 500, 545, 588, 629, 669, 707,
    743, 777, 809, 839, 866, 891, 914, 934, 951, 966, 978, 988, 995, 999, 1000>>

SinMilli(k) ==
  LET r == k % 120
  IN IF k = 0 THEN 0
     ELSE IF r = 0 THEN -1      \* Math.sin(2 m pi) < 0 for m = 1..6
     ELSE IF r = 60 THEN 1      \* Math.sin((2 m + 1) pi) > 0 for m = 0..5
     ELSE IF r <= 30 THEN SinTable[r]
     ELSE IF r < 60 THEN SinTable[60 - r]
     ELSE IF r <= 90 THEN -SinTable[r - 60]
     ELSE -SinTable[120 - r]

CosMilli(k) ==
  IF k = 30 THEN 0              \* Math.cos(Math.PI / 2) is 6e-17: 0.5 - 0.5 * it is 0.5
  ELSE IF k < 30 THEN SinTable[30 - k]
  ELSE -SinTable[k - 30]

\* the easing with the magnitude of the sine after the end
easeInOutSineMagnitude(timestamp, start, end) ==
  LET totalDuration == end - start
  IN IF timestamp < start THEN 0
     ELSE IF timestamp > end
       THEN LET v == SinMilli((120 * (timestamp - end)) \div totalDuration)
            IN IF v < 0 THEN -v ELSE v
       ELSE LET k == (60 * (timestamp - start)) \div totalDuration
            IN Max(0, 500 - CosMilli(k) \div 2)

\* the easing with the cosine not halved: 0.5 - Math.cos(progress * Math.PI)
easeInOutSineUnscaled(timestamp, start, end) ==
  LET totalDuration == end - start
  IN IF timestamp < start THEN 0
     ELSE IF timestamp > end
       THEN SinMilli((120 * (timestamp - end)) \div totalDuration)
       ELSE LET k == (60 * (timestamp - start)) \div totalDuration
            IN Max(0, 500 - CosMilli(k))

easeInOutSine(timestamp, start, end) ==
  LET totalDuration == end - start
  IN IF timestamp < start THEN 0
     ELSE IF timestamp > end
       THEN \* progressAfterEnd * 60 = elapsedAfterEnd / (totalDuration / 2) * 60
            SinMilli((120 * (timestamp - end)) \div totalDuration)
       ELSE \* progress * 60
            LET k == (60 * (timestamp - start)) \div totalDuration
            IN Max(0, 500 - CosMilli(k) \div 2)

(***************************************************************************)
(* initBackground: the grid of letter positions, then the seeded letters.  *)
(***************************************************************************)
\* the grid with Math.floor in place of Math.ceil
GridCellsFloor(w, h, text) ==
  LET letters == w \div LETTER_WIDTH
      lines == h \div LETTER_HEIGHT
  IN [k \in 1..(lines * letters) |->
        LET i == (k - 1) \div letters
            j == (k - 1) % letters
        IN [x |-> j * LETTER_WIDTH,
            y |-> i * LETTER_HEIGHT,
            letter |-> text[(j % Len(text)) + 1]]]

\* the cells pushed by the two loops of lines 85-94, row by row
GridCells(w, h, text) ==
  LET letters == Ceil(w, LETTER_WIDTH)
      lines == Ceil(h, LETTER_HEIGHT)
  IN [k \in 1..(lines * letters) |->
        LET i == (k - 1) \div letters
            j == (k - 1) % letters
        IN [x |-> j * LETTER_WIDTH,
            y |-> i * LETTER_HEIGHT,
            letter |-> text[(j % Len(text)) + 1]]]

\* the count rounded up instead of to the nearest integer
TargetCountCeil(h) == Ceil(Ceil(h, LETTER_HEIGHT) * 75, 100)

\* Number.parseInt((lines * 0.75).toFixed())
TargetCount(h) == ToFixed(Ceil(h, LETTER_HEIGHT) * 75, 100)

\* LETTER_FADE_DURATION[0] + Math.random() * (LETTER_FADE_DURATION[1] -
\* LETTER_FADE_DURATION[0]), in whole seconds
AnimLengths ==
  {d \in LETTER_FADE_DURATION[1]..(LETTER_FADE_DURATION[2] - 1) : d <= MaxDuration}

\* the fadeout computed without the conversion of seconds to milliseconds
NewInstanceSeconds(cell, t, animLength, id) ==
  [x |-> cell.x, y |-> cell.y, letter |-> cell.letter,
   timestamp |-> t, fadeout |-> t + animLength, id |-> id]

\* the object literal with the two coordinates exchanged
NewInstanceSwapped(cell, t, animLength, id) ==
  [x |-> cell.y, y |-> cell.x, letter |-> cell.letter,
   timestamp |-> t, fadeout |-> t + animLength * MS_PER_SECOND, id |-> id]

\* lines 113-119 and 192-198: { ...letter, timestamp: Date.now(),
\* fadeout: Date.now() + animLength * 1000 }
NewInstance(cell, t, animLength, id) ==
  [x |-> cell.x, y |-> cell.y, letter |-> cell.letter,
   timestamp |-> t, fadeout |-> t + animLength * MS_PER_SECOND, id |-> id]

FillText(letter, alpha) ==
  [letter |-> letter.letter, x |-> letter.x, y |-> letter.y, alpha |-> alpha]

\* positions, instances: the two arrays as the call finds them; draws: the
\* Sampler's random indices; lengths: the random duration of each seeded letter
initBackground(positions, instances, w, h, t, text, draws, lengths, id) ==
  LET grid == positions \o GridCells(w, h, text)
      sample == getRandomAmountFromArray(grid, TargetCount(h), draws)
      randomLetters == sample.value
      n == Len(randomLetters)
  IN IF sample.threw
     THEN [threw |-> TRUE, letterPositions |-> grid, letterInstances |-> instances,
           drawn |-> <<>>, nextId |-> id, seeded |-> 0]
     ELSE [threw |-> FALSE,
           letterPositions |-> grid,
           letterInstances |-> instances \o
             [k \in 1..n |-> NewInstance(randomLetters[k], t, lengths[k], id + k - 1)],
           drawn |-> [k \in 1..n |-> FillText(randomLetters[k], 0)],
           nextId |-> id + n,
           seeded |-> n]

\* the random choices one call of initBackground can make
BuildChoices(positions, w, h, text) ==
  LET len == Len(positions) + Ceil(w, LETTER_WIDTH) * Ceil(h, LETTER_HEIGHT)
      n == TargetCount(h)
  IN [draws : DrawSeqs(len, n), lengths : [1..Min(n, len) -> AnimLengths]]

(***************************************************************************)
(* redrawBackground: the for-of loop over this.letterInstances, which the  *)
(* body splices and pushes to while the iterator walks it by index.        *)
(***************************************************************************)
\* Array.prototype.indexOf by object identity, from 0; -1 when absent
IndexOf(arr, obj) ==
  IF \E k \in 1..Len(arr) : arr[k].id = obj.id
  THEN (CHOOSE k \in 1..Len(arr) : arr[k].id = obj.id /\
          \A m \in 1..(k - 1) : arr[m].id # obj.id) - 1
  ELSE -1

\* arr.slice(start, 1) in place of splice: the array is left as it is
SpliceNothing(arr, start) == arr

\* arr.splice(start, 1); a negative start counts from the end
Splice(arr, start) ==
  LET at == IF start < 0 THEN Max(Len(arr) + start, 0) ELSE Min(start, Len(arr))
  IN SubSeq(arr, 1, at) \o SubSeq(arr, at + 2, Len(arr))

\* the loop that examines a letter before its fadeout like any other
FadeoutPendingNever(letter, t) == FALSE

\* line 184: if (letter.fadeout > now) continue
FadeoutPending(letter, t) == letter.fadeout > t

\* st: the loop's state when the iterator stands at index i (from 1).
\* The set of states the loop can end in, one per outcome of Math.random().
RECURSIVE RedrawLoop(_, _, _, _)
RedrawLoop(i, st, grid, t) ==
  IF st.threw \/ i > Len(st.instances) THEN {st}
  ELSE
    LET letter == st.instances[i]
        seen == [st EXCEPT !.examined = Append(@, letter.id)]
    IN IF FadeoutPending(letter, t) THEN RedrawLoop(i + 1, seen, grid, t)
       ELSE
         LET alpha == easeInOutSine(t, letter.timestamp, letter.fadeout)
             drawn == [seen EXCEPT !.canvas = Append(@, FillText(letter, alpha)),
                                   !.painted = Append(@, letter.id)]
         IN IF alpha <= 0 /\ t > letter.fadeout
            THEN
              LET spliced == Splice(st.instances, IndexOf(st.instances, letter))
                  samples == {getRandomAmountFromArray(grid, 1, d) :
                                d \in DrawSeqs(Len(grid), 1)}
              IN IF \E randomLetter \in samples : randomLetter.threw
                 THEN {[seen EXCEPT !.instances = spliced,
                                    !.retired = Append(@, letter.id),
                                    !.threw = TRUE]}
                 ELSE UNION {
                   RedrawLoop(i + 1,
                     [drawn EXCEPT
                        !.instances = Append(spliced,
                           NewInstance(randomLetter.value[1], t, length, st.nextId)),
                        !.nextId = @ + 1,
                        !.retired = Append(@, letter.id),
                        !.inserted = Append(@, st.nextId)],
                     grid, t)
                   : randomLetter \in samples, length \in AnimLengths}
            ELSE RedrawLoop(i + 1, drawn, grid, t)

RedrawOutcomes(instances, grid, t, id) ==
  RedrawLoop(1,
    [instances |-> instances, nextId |-> id, canvas |-> <<>>, threw |-> FALSE,
     examined |-> <<>>, painted |-> <<>>, retired |-> <<>>, inserted |-> <<>>],
    grid, t)

(***************************************************************************)
(* The host: viewports, titles, the animation frame queue.                 *)
(***************************************************************************)
\* document.body.clientWidth and the page height the handlers can read
Viewports == {<<0, 36>>, <<18, 0>>, <<18, 35>>, <<1, 100>>}

Titles == {<<"A", "b", " ", "|", " ", "x">>}

NoFrame ==
  [op |-> "none", examined |-> <<>>, painted |-> <<>>, retired |-> <<>>,
   inserted |-> <<>>, redundant |-> FALSE]

Handler(op) == [NoFrame EXCEPT !.op = op]

\* no PageBackground object exists and the host has nothing registered
HostIdle ==
  /\ now = 0
  /\ fontLoaded = FALSE
  /\ width = 0
  /\ height = 0
  /\ letterPositions = <<>>
  /\ letterInstances = <<>>
  /\ nextId = 1
  /\ animationFrameId = null
  /\ frameQueue = {}
  /\ nextHandle = 1
  /\ observing = FALSE
  /\ unloadHook = FALSE
  /\ canvas = <<>>
  /\ frame = NoFrame
  /\ error = "none"
  /\ seeded = 0
  /\ stops = 0

Init ==
  /\ pc = "awaitFont"
  /\ title \in Titles
  /\ ctxOk \in BOOLEAN
  /\ HostIdle
  /\ args = <<>>
  /\ result = <<>>

\* the constructor without its check of the context
ContextAssumed == TRUE

\* line 48: overlayCanvas.getContext('2d') returned a context
ContextAcquired == ctxOk

\* resizeBackground without the two assignments
NotReassigned(arr) == arr

\* lines 226-227: this.letterInstances = []; this.letterPositions = []
Reassigned(arr) == <<>>

\* initializeBackground() that constructs the object without awaiting the font
FontNotAwaited == TRUE

\* line 258: await loadFont(); what follows runs once the promise has resolved
FontAwaited == fontLoaded

\* loadFont() resolves: font.load() is done and document.fonts.add(font) has run;
\* initializeBackground() is still suspended at its await
FontLoaded ==
  /\ pc = "awaitFont"
  /\ ~fontLoaded
  /\ fontLoaded' = TRUE
  /\ UNCHANGED <<pc, title, ctxOk, now, width, height, letterPositions,
                 letterInstances, nextId, animationFrameId, frameQueue, nextHandle,
                 observing, unloadHook, canvas, frame, error, seeded, stops, args,
                 result>>

\* await loadFont() rejects: initializeBackground() ends there
FontRejected ==
  /\ pc = "awaitFont"
  /\ ~fontLoaded
  /\ pc' = "rejected"
  /\ error' = "font"
  /\ frame' = Handler("initialize")
  /\ UNCHANGED <<title, ctxOk, fontLoaded, now, width, height, letterPositions,
                 letterInstances, nextId, animationFrameId, frameQueue, nextHandle,
                 observing, unloadHook, canvas, seeded, stops, args, result>>

\* new PageBackground(overlayCanvas) throws at line 49
NoContext ==
  /\ pc = "awaitFont"
  /\ FontAwaited
  /\ ~ContextAcquired
  /\ pc' = "rejected"
  /\ error' = "context"
  /\ frame' = Handler("initialize")
  /\ UNCHANGED <<title, ctxOk, fontLoaded, now, width, height, letterPositions,
                 letterInstances, nextId, animationFrameId, frameQueue, nextHandle,
                 observing, unloadHook, canvas, seeded, stops, args, result>>

\* the constructor's initBackground() throws the Sampler's error
ConstructorThrows ==
  /\ pc = "awaitFont"
  /\ FontAwaited
  /\ ContextAcquired
  /\ \E v \in Viewports :
       \E c \in BuildChoices(<<>>, v[1], v[2], PageText(title)) :
         \E b \in {initBackground(<<>>, <<>>, v[1], v[2], now, PageText(title),
                                 c.draws, c.lengths, nextId)} :
            /\ b.threw
            /\ width' = v[1]
            /\ height' = v[2]
            /\ letterPositions' = b.letterPositions
            /\ letterInstances' = b.letterInstances
            /\ seeded' = b.seeded
  /\ pc' = "rejected"
  /\ error' = "sampler"
  /\ frame' = Handler("initialize")
  /\ UNCHANGED <<title, ctxOk, fontLoaded, now, nextId, animationFrameId, frameQueue,
                 nextHandle, observing, unloadHook, canvas, stops, args, result>>

\* after the await: the object is constructed, the first frame requested, the
\* observer and the beforeunload listener registered
Initialize ==
  /\ pc = "awaitFont"
  /\ FontAwaited
  /\ ContextAcquired
  /\ \E v \in Viewports :
       \E c \in BuildChoices(<<>>, v[1], v[2], PageText(title)) :
         \E b \in {initBackground(<<>>, <<>>, v[1], v[2], now, PageText(title),
                                 c.draws, c.lengths, nextId)} :
            /\ ~b.threw
            /\ width' = v[1]
            /\ height' = v[2]
            /\ letterPositions' = b.letterPositions
            /\ letterInstances' = b.letterInstances
            /\ canvas' = b.drawn
            /\ nextId' = b.nextId
            /\ seeded' = b.seeded
  /\ animationFrameId' = nextHandle
  /\ frameQueue' = frameQueue \cup {nextHandle}
  /\ nextHandle' = nextHandle + 1
  /\ observing' = TRUE
  /\ unloadHook' = TRUE
  /\ pc' = "registered"
  /\ error' = "none"
  /\ frame' = Handler("initialize")
  /\ UNCHANGED <<title, ctxOk, fontLoaded, now, stops, args, result>>

\* the host runs a queued animation frame callback, as long as the handle the
\* callback's own request will get is at most limit
RunFrame(limit) ==
  /\ nextHandle <= limit
  /\ \E h \in frameQueue :
       \E o \in RedrawOutcomes(letterInstances, letterPositions, now, nextId) :
         /\ letterInstances' = o.instances
         /\ nextId' = o.nextId
         /\ canvas' = o.canvas
         /\ frame' = [op |-> "tick", examined |-> o.examined,
                      painted |-> o.painted, retired |-> o.retired,
                      inserted |-> o.inserted, redundant |-> FALSE]
         /\ IF o.threw
            THEN /\ error' = "sampler"
                 /\ frameQueue' = frameQueue \ {h}
                 /\ UNCHANGED <<animationFrameId, nextHandle>>
            ELSE /\ error' = "none"
                 /\ animationFrameId' = nextHandle
                 /\ frameQueue' = (frameQueue \ {h}) \cup {nextHandle}
                 /\ nextHandle' = nextHandle + 1
  /\ UNCHANGED <<pc, title, ctxOk, fontLoaded, now, width, height, letterPositions,
                 observing, unloadHook, seeded, stops, args, result>>

\* the host runs a queued animation frame callback: redrawBackground
redrawBackground == RunFrame(MaxFrames)

\* resizeBackground that ends, as the constructor does, with a request for a frame
resizeBackgroundRequestsFrame ==
  /\ observing
  /\ nextId <= MaxObjects
  /\ \E v \in Viewports :
       \E c \in BuildChoices(Reassigned(letterPositions), v[1], v[2], PageText(title)) :
         \E b \in {initBackground(Reassigned(letterPositions),
                                 Reassigned(letterInstances), v[1], v[2], now,
                                 PageText(title), c.draws, c.lengths, nextId)} :
            /\ width' = v[1]
            /\ height' = v[2]
            /\ letterPositions' = b.letterPositions
            /\ letterInstances' = b.letterInstances
            /\ canvas' = b.drawn
            /\ nextId' = b.nextId
            /\ seeded' = b.seeded
            /\ error' = IF b.threw THEN "sampler" ELSE "none"
            /\ frame' = [Handler("resize") EXCEPT
                           !.redundant = (v[1] = width /\ v[2] = height)]
  /\ animationFrameId' = nextHandle
  /\ frameQueue' = frameQueue \cup {nextHandle}
  /\ nextHandle' = nextHandle + 1
  /\ UNCHANGED <<pc, title, ctxOk, fontLoaded, now, observing, unloadHook, stops,
                 args, result>>

\* the ResizeObserver's callback: resizeBackground
resizeBackground ==
  /\ observing
  /\ nextId <= MaxObjects
  /\ \E v \in Viewports :
       \E c \in BuildChoices(Reassigned(letterPositions), v[1], v[2], PageText(title)) :
         \E b \in {initBackground(Reassigned(letterPositions),
                                 Reassigned(letterInstances), v[1], v[2], now,
                                 PageText(title), c.draws, c.lengths, nextId)} :
            /\ width' = v[1]
            /\ height' = v[2]
            /\ letterPositions' = b.letterPositions
            /\ letterInstances' = b.letterInstances
            /\ canvas' = b.drawn
            /\ nextId' = b.nextId
            /\ seeded' = b.seeded
            /\ error' = IF b.threw THEN "sampler" ELSE "none"
            /\ frame' = [Handler("resize") EXCEPT
                           !.redundant = (v[1] = width /\ v[2] = height)]
  /\ UNCHANGED <<pc, title, ctxOk, fontLoaded, now, animationFrameId, frameQueue,
                 nextHandle, observing, unloadHook, stops, args, result>>

\* destroy that forgets the frame but leaves its callback queued
destroyWithoutCancel(id, queue) ==
  [animationFrameId |-> null, frameQueue |-> queue, threw |-> FALSE]

\* destroy that refuses to stop what is not running
destroyStrict(id, queue) ==
  IF id # null
  THEN [animationFrameId |-> null, frameQueue |-> queue \ {id}, threw |-> FALSE]
  ELSE [animationFrameId |-> id, frameQueue |-> queue, threw |-> TRUE]

\* PageBackground.destroy; it has no throw statement and cancelAnimationFrame
\* never throws
destroy(id, queue) ==
  IF id # null
  THEN [animationFrameId |-> null, frameQueue |-> queue \ {id}, threw |-> FALSE]
  ELSE [animationFrameId |-> id, frameQueue |-> queue, threw |-> FALSE]

\* the beforeunload listener: background.destroy(); observer.disconnect()
BeforeUnload ==
  /\ unloadHook
  /\ stops < MaxStops
  /\ stops' = stops + 1
  /\ \E d \in {destroy(animationFrameId, frameQueue)} :
        /\ animationFrameId' = d.animationFrameId
        /\ frameQueue' = d.frameQueue
        /\ observing' = IF d.threw THEN observing ELSE FALSE
        /\ error' = IF d.threw THEN "destroy" ELSE "none"
  /\ frame' = Handler("unload")
  /\ UNCHANGED <<pc, title, ctxOk, fontLoaded, now, width, height, letterPositions,
                 letterInstances, nextId, nextHandle, unloadHook, canvas, seeded,
                 args, result>>

\* a second of wall-clock time passes
ClockAdvance ==
  /\ pc # "awaitFont"
  /\ now < MaxTime * MS_PER_SECOND
  /\ now' = now + MS_PER_SECOND
  /\ UNCHANGED <<pc, title, ctxOk, fontLoaded, width, height, letterPositions,
                 letterInstances, nextId, animationFrameId, frameQueue, nextHandle,
                 observing, unloadHook, canvas, frame, error, seeded, stops, args,
                 result>>

Next ==
  \/ FontLoaded
  \/ FontRejected
  \/ NoContext
  \/ ConstructorThrows
  \/ Initialize
  \/ redrawBackground
  \/ resizeBackground
  \/ BeforeUnload
  \/ ClockAdvance

Spec == Init /\ [][Next]_vars

(***************************************************************************)
(* getRandomAmountFromArray applied on its own: every array up to MaxLen,  *)
(* every count up to one more than its length, every outcome of            *)
(* Math.random().                                                          *)
(***************************************************************************)
Elements == {"a", "b"}

Arrays == UNION {[1..len -> Elements] : len \in 0..MaxLen}

SamplerInputs ==
  UNION {[arr : {a}, n : {n}, draws : DrawSeqs(Len(a), n)] :
           a \in Arrays, n \in 0..(MaxLen + 1)}

InitSampler ==
  /\ pc = "call"
  /\ title = <<>>
  /\ ctxOk = TRUE
  /\ HostIdle
  /\ args \in SamplerInputs
  /\ result = <<>>

CallSampler ==
  /\ pc = "call"
  /\ pc' = "returned"
  /\ result' = getRandomAmountFromArray(args.arr, args.n, args.draws)
  /\ UNCHANGED <<title, ctxOk, fontLoaded, now, width, height, letterPositions,
                 letterInstances, nextId, animationFrameId, frameQueue, nextHandle,
                 observing, unloadHook, canvas, frame, error, seeded, stops, args>>

SpecSampler == InitSampler /\ [][CallSampler]_vars

(***************************************************************************)
(* initBackground applied on its own to a new object: larger viewports,    *)
(* several titles; each random index the first or the last of its range,   *)
(* one duration for all letters of a build.                                *)
(***************************************************************************)
BuildViewports ==
  ({0, 1, 17, 18} \X {0, 1, 35, 36, 71}) \cup
  {<<100, 100>>, <<17, 350>>, <<18, 316>>, <<35, 140>>}

BuildTitles ==
  {<<>>, <<"B">>, <<"A", "b", " ", "|", " ", "x">>, <<" ", "|", " ", "x">>,
   <<"a", " ", "|", "b">>}

EdgeDraws(len, n) ==
  LET m == Min(n, len)
  IN {[k \in 1..m |-> IF last[k] THEN len - k ELSE 0] : last \in [1..m -> BOOLEAN]}

BuildInputs ==
  UNION {[w : {v[1]}, h : {v[2]}, title : BuildTitles,
          draws : EdgeDraws(Ceil(v[1], LETTER_WIDTH) * Ceil(v[2], LETTER_HEIGHT),
                            TargetCount(v[2])),
          lengths : {[k \in 1..TargetCount(v[2]) |-> d] : d \in AnimLengths}] :
           v \in BuildViewports}

InitBuild ==
  /\ pc = "call"
  /\ title = <<>>
  /\ ctxOk = TRUE
  /\ HostIdle
  /\ args \in BuildInputs
  /\ result = <<>>

CallInitBackground ==
  /\ pc = "call"
  /\ pc' = "returned"
  /\ result' = initBackground(<<>>, <<>>, args.w, args.h, now, PageText(args.title),
                              args.draws, args.lengths, nextId)
  /\ UNCHANGED <<title, ctxOk, fontLoaded, now, width, height, letterPositions,
                 letterInstances, nextId, animationFrameId, frameQueue, nextHandle,
                 observing, unloadHook, canvas, frame, error, seeded, stops, args>>

SpecBuild == InitBuild /\ [][CallInitBackground]_vars

(***************************************************************************)
(* easeInOutSine applied on its own, and with it one tick over a single    *)
(* letter instance that has the same start and end: every whole second up  *)
(* to MaxEaseTime, every whole duration of the configured range.           *)
(***************************************************************************)
FadeLengths == LETTER_FADE_DURATION[1]..(LETTER_FADE_DURATION[2] - 1)

EaseStarts == {0, MS_PER_SECOND, 3 * MS_PER_SECOND}

EaseInputs ==
  [now : {k * MS_PER_SECOND : k \in 0..MaxEaseTime}, start : EaseStarts,
   length : FadeLengths]

EaseCell == [x |-> 0, y |-> 0, letter |-> "a"]

\* the alphas the fillText calls of one redrawBackground() at time t use
TickAlphas(instances, grid, t) ==
  UNION {{o.canvas[k].alpha : k \in 1..Len(o.canvas)} :
           o \in RedrawOutcomes(instances, grid, t, Len(instances) + 1)}

InitEase ==
  /\ pc = "call"
  /\ title = <<>>
  /\ ctxOk = TRUE
  /\ HostIdle
  /\ args \in EaseInputs
  /\ result = <<>>

CallEase ==
  /\ pc = "call"
  /\ pc' = "returned"
  /\ result' =
       [value |-> easeInOutSine(args.now, args.start,
                                args.start + args.length * MS_PER_SECOND),
        alphas |-> TickAlphas(<<NewInstance(EaseCell, args.start, args.length, 1)>>,
                              <<EaseCell>>, args.now)]
  /\ UNCHANGED <<title, ctxOk, fontLoaded, now, width, height, letterPositions,
                 letterInstances, nextId, animationFrameId, frameQueue, nextHandle,
                 observing, unloadHook, canvas, frame, error, seeded, stops, args>>

SpecEase == InitEase /\ [][CallEase]_vars

(***************************************************************************)
(* The frame loop on its own, paced: after the construction the host runs  *)
(* the queued callback once every second of the clock, and nothing else    *)
(* happens (no resize, no unload).  requestAnimationFrame callbacks run at *)
(* the display's rate, many times a second; here one frame is a second.    *)
(***************************************************************************)
\* the callback queued by the last request runs
LiveFrame ==
  /\ frame.op # "tick"
  /\ RunFrame(MaxLiveTime + 2)

\* the time to the next frame passes
FrameInterval ==
  /\ pc = "registered"
  /\ frame.op = "tick"
  /\ now < MaxLiveTime * MS_PER_SECOND
  /\ now' = now + MS_PER_SECOND
  /\ frame' = Handler("interval")
  /\ UNCHANGED <<pc, title, ctxOk, fontLoaded, width, height, letterPositions,
                 letterInstances, nextId, animationFrameId, frameQueue, nextHandle,
                 observing, unloadHook, canvas, error, seeded, stops, args, result>>

NextLive ==
  \/ FontLoaded
  \/ Initialize
  \/ LiveFrame
  \/ FrameInterval

\* a callback is queued and the host may run it: the states where LiveFrame is
\* enabled (FramePendingIsEnabled)
FramePending ==
  /\ frame.op # "tick"
  /\ nextHandle <= MaxLiveTime + 2
  /\ frameQueue # {}

\* Weak fairness of both actions: a queued callback is run, time passes.  That of
\* LiveFrame is written with FramePending, which a LiveFrame step ends: it is
\* WF_vars(LiveFrame) without the evaluation of the whole tick for every step.
SpecLive ==
  /\ Init
  /\ [][NextLive]_vars
  /\ []<>(~FramePending)
  /\ WF_vars(FrameInterval)

FramePendingIsEnabled == FramePending <=> ENABLED <<LiveFrame>>_vars

(***************************************************************************)
\* c = ceil(a / b), said without the division
IsCeil(c, a, b) == (c - 1) * b < a /\ a <= c * b

\* c = num / den rounded to the nearest integer, a tie going up
IsRound(c, num, den) == 2 * den * c - den <= 2 * num /\ 2 * num < 2 * den * c + den

\* a PageBackground object exists and its handlers are registered
Running == pc = "registered"

\* the beforeunload listener has run
Stopped == pc = "registered" /\ stops >= 1

\* C1: between two builds the number of active letter instances stays the number
\* the last build seeded, whatever ticks run at whatever times with whatever random
\* choices, and a tick that retires k instances inserts exactly k
C1_ActiveCountConstant ==
  /\ Len(letterInstances) = seeded
  /\ frame.op = "tick" => Len(frame.inserted) = Len(frame.retired)

C1_Witness ==
  /\ frame.op = "tick"
  /\ Len(frame.retired) >= 1
  /\ Len(letterInstances) = 2

\* C2: once stopped, always stopped: the queued callback is cancelled by the stop,
\* no frame callback is pending afterwards, no tick runs and none is requested
C2_StoppedIsTerminal ==
  [][/\ Stopped' => (frameQueue' = {} /\ animationFrameId' = null)
     /\ Stopped => (Stopped' /\ nextHandle' = nextHandle /\ frame'.op # "tick")]_vars

C2_Witness ==
  /\ Stopped
  /\ stops = 2
  /\ nextHandle >= 3
  /\ now >= MS_PER_SECOND

\* C3: a resize leaves no letter instance object that existed before it, and a grid
\* of exactly rows x columns cells for the new width and height
C3_ResizeRebuilds ==
  [][(frame'.op = "resize" /\ now' = now) =>
       /\ \A k \in 1..Len(letterInstances') : letterInstances'[k].id >= nextId
       /\ \E columns \in 0..(width' + 1), rows \in 0..(height' + 1) :
            /\ IsCeil(columns, width', 17)
            /\ IsCeil(rows, height', 35)
            /\ Len(letterPositions') = rows * columns]_vars

C3_Witness ==
  /\ frame.op = "resize"
  /\ Len(letterInstances) >= 1
  /\ letterInstances[1].id >= 3
  /\ now >= MS_PER_SECOND

\* C4: for a source of length L >= 1 and 0 <= n <= L the Sampler returns n elements
\* of the source, taken at pairwise distinct source indices, and leaves the source
\* as it was, whatever the random draws
C4_SamplerDistinct ==
  (pc = "returned" /\ Len(args.arr) >= 1 /\ args.n <= Len(args.arr)) =>
    /\ ~result.threw
    /\ Len(result.value) = args.n
    /\ \A i \in 1..args.n :
         /\ result.indices[i] \in 0..(Len(args.arr) - 1)
         /\ result.value[i] = args.arr[result.indices[i] + 1]
    /\ \A i, j \in 1..args.n : i # j => result.indices[i] # result.indices[j]
    /\ result.arr = args.arr

\* the second draw lands on the slot the first one consumed
C4_Witness ==
  /\ pc = "returned"
  /\ Len(args.arr) >= 3
  /\ args.n = Len(args.arr)
  /\ args.draws[1] = 0
  /\ args.draws[2] = 0
  /\ ~result.threw

\* C5: with n greater than the length of the source the Sampler throws and returns
\* no element; it does not clamp n
C5_SamplerThrows ==
  (pc = "returned" /\ args.n > Len(args.arr)) =>
    (result.threw /\ result.value = <<>>)

C5_Witness ==
  /\ pc = "returned"
  /\ Len(args.arr) >= 1
  /\ args.n > Len(args.arr)
  /\ result.threw

\* C6: every build seeds round(rows * 0.75) letter instances, rows = ceil(H / 35)
C6_SeedCountIsRound ==
  (Running /\ frame.op \in {"initialize", "resize"}) =>
    \E rows \in 0..(height + 1) :
      /\ IsCeil(rows, height, 35)
      /\ IsRound(Len(letterInstances), 3 * rows, 4)
      /\ rows = 10 => Len(letterInstances) = 8

\* C7 as stated: the number of active letter instances is ceil(0.75 * rows)
C7_CountIsCeil ==
  Running =>
    \E rows \in 0..(height + 1) :
      /\ IsCeil(rows, height, 35)
      /\ IsCeil(Len(letterInstances), 3 * rows, 4)

\* C7 amended: after any build and any number of ticks the number of active letter
\* instances is round(0.75 * rows), a tie going up, and 0 when that count exceeds
\* the number of cells of the grid, where the build fails
C7_CountIsRound ==
  Running =>
    \E rows \in 0..(height \div 35 + 1), columns \in 0..(width \div 17 + 1) :
      \E count \in 0..rows :
        /\ IsCeil(rows, height, 35)
        /\ IsCeil(columns, width, 17)
        /\ IsRound(count, 3 * rows, 4)
        /\ Len(letterInstances) = IF count > rows * columns THEN 0 ELSE count

\* three rows: round(2.25) = 2 where ceil(2.25) = 3, after a tick that replaced a letter
C7_Witness ==
  /\ Running
  /\ height = 100
  /\ frame.op = "tick"
  /\ Len(frame.retired) >= 1
  /\ Len(letterInstances) = 2

\* C8: the grid has ceil(W / 17) x ceil(H / 35) cells, row by row, the cell of row i
\* and column j at (17 j, 35 i) with the character text[j mod length(text)];
\* W = H = 100 gives 6 columns, 3 rows, 18 cells
C8_GridCells ==
  pc = "returned" =>
    LET text == PageText(args.title)
        grid == result.letterPositions
    IN \E columns \in 0..(args.w \div 17 + 1), rows \in 0..(args.h \div 35 + 1) :
         /\ IsCeil(columns, args.w, 17)
         /\ IsCeil(rows, args.h, 35)
         /\ Len(grid) = rows * columns
         /\ \A i \in 0..(rows - 1), j \in 0..(columns - 1) :
              grid[i * columns + j + 1] =
                [x |-> j * 17, y |-> i * 35, letter |-> text[(j % Len(text)) + 1]]
         /\ (args.w = 100 /\ args.h = 100) =>
              (columns = 6 /\ rows = 3 /\ Len(grid) = 18)

C8_Witness ==
  /\ pc = "returned"
  /\ args.w = 100
  /\ args.h = 100
  /\ Len(PageText(args.title)) = 2
  /\ Len(result.letterPositions) = 18

\* C9: without a 2D context the constructor throws, initializeBackground() ends
\* there, and nothing is built, drawn, requested or registered
C9_NoContextNoSetup ==
  /\ ~ctxOk =>
       /\ ~Running
       /\ letterPositions = <<>>
       /\ letterInstances = <<>>
       /\ canvas = <<>>
       /\ frameQueue = {}
       /\ animationFrameId = null
       /\ nextHandle = 1
       /\ ~observing
       /\ ~unloadHook
       /\ pc = "rejected" => error \in {"font", "context"}
  /\ error = "context" => (pc = "rejected" /\ ~ctxOk)

C9_Witness ==
  /\ pc = "rejected"
  /\ error = "context"
  /\ ~ctxOk

\* C10: a stop after the first stop throws nothing and changes nothing of the object
\* or of what the host holds for it
C10_StopIdempotent ==
  [][(stops >= 1 /\ stops' = stops + 1) =>
       /\ error' = "none"
       /\ UNCHANGED <<pc, now, width, height, letterPositions, letterInstances, nextId,
                      animationFrameId, frameQueue, nextHandle, observing, unloadHook,
                      canvas, seeded>>]_vars

C10_Witness ==
  /\ Stopped
  /\ stops = 2
  /\ error = "none"

\* C11: until the font-ready signal has completed nothing is built, drawn, scheduled
\* or run: the seed render, the first frame request and every tick come after it
C11_FontFirst ==
  ~fontLoaded =>
    /\ letterPositions = <<>>
    /\ letterInstances = <<>>
    /\ canvas = <<>>
    /\ frameQueue = {}
    /\ animationFrameId = null
    /\ nextHandle = 1
    /\ ~observing
    /\ frame.op \in {"none", "initialize"}

C11_Witness ==
  /\ fontLoaded
  /\ Running
  /\ Len(letterInstances) >= 1
  /\ frame.op = "tick"
  /\ nextHandle >= 3

\* the letter instances as values: cell, character, timestamp and fadeout of each,
\* without the identity of the objects
Values(instances) ==
  [k \in 1..Len(instances) |->
     [x |-> instances[k].x, y |-> instances[k].y, letter |-> instances[k].letter,
      timestamp |-> instances[k].timestamp, fadeout |-> instances[k].fadeout]]

\* a step of resizeBackground that read the width and height the object already had
RedundantResize == frame'.op = "resize" /\ frame'.redundant /\ now' = now

\* C12 as stated: a resize that finds the viewport unchanged leaves the grid and the
\* active letter instances as they were
C12_ResizeIdempotent ==
  [][RedundantResize =>
       /\ letterPositions' = letterPositions
       /\ Values(letterInstances') = Values(letterInstances)]_vars

\* C12 amended: a resize that finds the viewport unchanged leaves the grid and the
\* number of active letter instances as they were, and replaces every instance by a
\* new object seeded at the time of the resize and drawn with alpha 0
C12_ResizeReseeds ==
  [][RedundantResize =>
       /\ letterPositions' = letterPositions
       /\ Len(letterInstances') = Len(letterInstances)
       /\ \A k \in 1..Len(letterInstances') :
            /\ letterInstances'[k].id >= nextId
            /\ letterInstances'[k].timestamp = now
       /\ Len(canvas') = Len(letterInstances')
       /\ \A k \in 1..Len(canvas') : canvas'[k].alpha = 0]_vars

\* a redundant resize of a three-row page, a second after the build before it
C12_Witness ==
  /\ frame.op = "resize"
  /\ frame.redundant
  /\ Len(letterInstances) = 2
  /\ now >= MS_PER_SECOND
  /\ \A k \in 1..2 : letterInstances[k].timestamp = now

\* C13: every letter instance fades out after it was created, and no sooner than
\* the 2 seconds the range of durations starts at
C13_FadeoutAfterTimestamp ==
  \A k \in 1..Len(letterInstances) :
    /\ letterInstances[k].fadeout > letterInstances[k].timestamp
    /\ letterInstances[k].fadeout - letterInstances[k].timestamp >=
         LETTER_FADE_DURATION[1] * MS_PER_SECOND

\* a seeded instance next to one a tick inserted later
C13_Witness ==
  /\ frame.op = "tick"
  /\ Len(letterInstances) = 2
  /\ letterInstances[1].timestamp = 0
  /\ letterInstances[2].timestamp >= 4 * MS_PER_SECOND
  /\ letterInstances[2].id \in {frame.inserted[k] : k \in 1..Len(frame.inserted)}

\* C14: every active letter instance stands at a cell of the current grid and shows
\* that cell's character
C14_InstanceOnGrid ==
  \A k \in 1..Len(letterInstances) :
    \E c \in 1..Len(letterPositions) :
      /\ letterPositions[c].x = letterInstances[k].x
      /\ letterPositions[c].y = letterInstances[k].y
      /\ letterPositions[c].letter = letterInstances[k].letter

\* a tick replaced a letter on a grid that a resize to another viewport had rebuilt
C14_Witness ==
  /\ frame.op = "tick"
  /\ Len(frame.inserted) = 1
  /\ height = 100
  /\ Len(letterPositions) = 3
  /\ \E k \in 1..Len(letterInstances) :
       /\ letterInstances[k].id = 4
       /\ letterInstances[k].y > 0
  /\ \E k \in 1..Len(letterInstances) : letterInstances[k].id \in {2, 3}

TickStep == frame'.op = "tick" /\ nextHandle' = nextHandle + 1

\* the elements of a log
Range(log) == {log[k] : k \in 1..Len(log)}

\* C16: in every tick each letter instance that is active when the tick starts is
\* examined exactly once; each one whose fadeout has passed is drawn, and each one
\* with now > fadeout and alpha <= 0 is retired, also after an earlier retirement
C16_NoneSkipped ==
  [][TickStep =>
       \A k \in 1..Len(letterInstances) :
         LET letter == letterInstances[k]
         IN /\ Cardinality({j \in 1..Len(frame'.examined) :
                              frame'.examined[j] = letter.id}) = 1
            /\ letter.fadeout <= now => letter.id \in Range(frame'.painted)
            /\ (now > letter.fadeout /\
                easeInOutSine(now, letter.timestamp, letter.fadeout) <= 0) =>
                 letter.id \in Range(frame'.retired)]_vars

\* C18: a tick at time now leaves a letter instance with fadeout > now as it is, not
\* drawn and not retired; it draws an instance only if its fadeout <= now, and
\* retires one only if now > fadeout and its eased alpha is <= 0
C18_OnlyExpiredProcessed ==
  [][TickStep =>
       /\ \A k \in 1..Len(letterInstances) :
            LET letter == letterInstances[k]
            IN /\ letter.fadeout > now =>
                    /\ letter.id \notin Range(frame'.painted)
                    /\ letter.id \notin Range(frame'.retired)
                    /\ \E j \in 1..Len(letterInstances') : letterInstances'[j] = letter
               /\ letter.id \in Range(frame'.painted) => letter.fadeout <= now
               /\ letter.id \in Range(frame'.retired) =>
                    /\ now > letter.fadeout
                    /\ easeInOutSine(now, letter.timestamp, letter.fadeout) <= 0
       /\ Range(frame'.painted) \cup Range(frame'.retired) \subseteq
            {letterInstances[k].id : k \in 1..Len(letterInstances)}]_vars

\* a tick drew one expired letter and passed over one that had not expired yet
C18_Witness ==
  /\ frame.op = "tick"
  /\ Len(frame.painted) = 1
  /\ frame.retired = <<>>
  /\ Len(frame.examined) = 2
  /\ \E k \in 1..Len(letterInstances) :
       /\ letterInstances[k].fadeout > now
       /\ letterInstances[k].id \in Range(frame.examined)
       /\ letterInstances[k].id \notin Range(frame.painted)
  /\ canvas # <<>>

\* C19: while running and not stopped exactly one frame callback is pending between
\* handlers; every tick ends without an error and requests exactly one frame; a
\* resize, failing or not, leaves the pending callback and the handles alone
C19_OneFramePending ==
  [][/\ (Running' /\ stops' = 0) =>
          /\ Cardinality(frameQueue') = 1
          /\ frameQueue' = {animationFrameId'}
     /\ (frame'.op = "tick" /\ now' = now) =>
          /\ error' = "none"
          /\ frameQueue' = {nextHandle}
          /\ nextHandle' = nextHandle + 1
     /\ (frame'.op = "resize" /\ now' = now) =>
          UNCHANGED <<frameQueue, animationFrameId, nextHandle>>]_vars

\* a tick ran after a resize that failed in the Sampler
C19_Witness ==
  /\ Running
  /\ stops = 0
  /\ frame.op = "tick"
  /\ width = 0
  /\ seeded = 0
  /\ nextHandle = 3
  /\ frameQueue = {2}

\* C20: for every viewport, width 0 and height 0 included, no build and no tick asks
\* the Sampler for more cells than the grid has: the Sampler's error is never thrown
C20_SamplerNeverThrows == error # "sampler"

\* the letter instance object with this identity is in this.letterInstances
Active(id) == \E k \in 1..Len(letterInstances) : letterInstances[k].id = id

\* the instance with this identity is two durations past its fadeout before the
\* paced frame loop ends
DueInTime(id) ==
  \E k \in 1..Len(letterInstances) :
    /\ letterInstances[k].id = id
    /\ letterInstances[k].fadeout +
         2 * (letterInstances[k].fadeout - letterInstances[k].timestamp) <=
           MaxLiveTime * MS_PER_SECOND

\* the identities the constructor's build gives the letters it seeds
SeededIds == UNION {1..TargetCount(v[2]) : v \in Viewports}

\* C17: while the frame loop runs, with no resize, every letter instance is
\* eventually retired and replaced: none stays in the active set for ever
C17_EventuallyRetired ==
  \A id \in SeededIds :
    (Active(id) /\ DueInTime(id)) ~>
      (~Active(id) /\ Len(letterInstances) = seeded /\ frame.inserted # <<>>)

\* both seeded letters have been retired and replaced
C17_Witness ==
  /\ Running
  /\ frame.op = "tick"
  /\ Len(letterInstances) = 2
  /\ ~Active(1)
  /\ ~Active(2)
  /\ Len(frame.retired) = 1
  /\ Len(frame.inserted) = 1
====
